---- MODULE Spec2Model ----
(***************************************************************************)
(* Model of the proxy gateway of tasquest.app (server/routes.ts):          *)
(* proxyToApi forwards one inbound request to the upstream API and, for    *)
(* feed responses, fans out one task-detail fetch per distinct task id and *)
(* merges the results into the feed items before answering the client.     *)
(***************************************************************************)
EXTENDS Integers, Sequences, FiniteSets, TLC

(***************************************************************************)
(* Bounds of the model.                                                    *)
(***************************************************************************)
MaxItems == 2
MaxRequests == 2
MaxOps == 3

(***************************************************************************)
(* JSON scalars.  Every value carries its kind, so that values of          *)
(* different JSON types can be compared.                                   *)
(***************************************************************************)
JStr(str) == [k |-> "str", s |-> str, n |-> 0]
JNum(n) == [k |-> "num", s |-> "", n |-> n]
JNull == [k |-> "null", s |-> "", n |-> 0]
\* The number n + 0.5, a JSON boolean, and the double NaN.
JFrac(n) == [k |-> "frac", s |-> "", n |-> n]
JBool(b) == [k |-> "bool", s |-> "", n |-> IF b THEN 1 ELSE 0]
NaN == [k |-> "nan", s |-> "", n |-> 0]

\* JavaScript truthiness of a JSON scalar: "", 0, false, null and NaN are
\* falsy.
Truthy(v) == \/ (v.k = "str" /\ v.s # "")
             \/ (v.k = "num" /\ v.n # 0)
             \/ v.k = "frac"
             \/ (v.k = "bool" /\ v.n = 1)

\* obj.key used as a condition: an absent key reads as undefined (falsy).
TruthyKey(obj, key) == key \in DOMAIN obj /\ Truthy(obj[key])

\* Variant: obj.key without the fallback; an absent key gives no value.
OrDefault_Raw(obj, key, dflt) == IF key \in DOMAIN obj THEN obj[key] ELSE JNull

\* obj.key || dflt
OrDefault(obj, key, dflt) == IF TruthyKey(obj, key) THEN obj[key] ELSE dflt

\* The empty object {}.
EmptyObj == [key \in {} |-> JNull]

\* { ...obj, key: value } for the keys of extra.
Spread(obj, extra) ==
    [key \in DOMAIN obj \cup DOMAIN extra |->
        IF key \in DOMAIN extra THEN extra[key] ELSE obj[key]]

(***************************************************************************)
(* Feed items as the upstream API sends them (lib/types.ts, FeedItem).     *)
(* taskId "" stands for an absent or null taskId; hasPayload FALSE for an  *)
(* absent or null payload.                                                 *)
(***************************************************************************)
TaskIds == {"t1", "t2"}
NoTaskId == ""

Payloads ==
    { [has |-> FALSE, map |-> EmptyObj],
      [has |-> TRUE, map |-> [note |-> JStr("n")]],
      [has |-> TRUE, map |-> [note |-> JStr("n"), taskTitle |-> JStr("Old")]],
      [has |-> TRUE, map |-> [title |-> JStr("Old")]],
      [has |-> TRUE, map |-> [taskTitle |-> JStr("")]],
      [has |-> TRUE, map |-> [title |-> JNull, rewardXp |-> JNum(7)]] }

FeedItem(i, tid, p) ==
    [id |-> i, type |-> "TASK_CREATED", taskId |-> tid,
     hasPayload |-> p.has, payload |-> p.map]

RECURSIVE FeedLists(_)
FeedLists(n) ==
    IF n = 0 THEN { <<>> }
    ELSE LET shorter == FeedLists(n - 1)
         IN  shorter \cup
             { Append(l, FeedItem(Len(l) + 1, tid, p)) :
                 l \in { s \in shorter : Len(s) = n - 1 },
                 tid \in TaskIds \cup {NoTaskId},
                 p \in Payloads }


(***************************************************************************)
(* Inbound requests.  A path or URL is a sequence of string pieces, cut so *)
(* that every substring the handlers look for ("/api/v1", "/v1", "/feed",  *)
(* "?") is a whole piece.                                                  *)
(***************************************************************************)
FeedPath == << "/api/v1", "/feed" >>
TasksPath == << "/api/v1", "/tasks" >>
FeedSubPath == << "/api/v1", "/feed", "/unread" >>
NestedPath == << "/api/v1", "/lists", "/api/v1", "/x" >>
UpperPath == << "/API/V1", "/feed" >>
XpPath == << "/api", "/xp-suggest" >>

\* An Express request: originalUrl is the path followed by the query part;
\* hasBody says that req.body is defined, body is the parsed JSON object.
Request(method, path, search, auth, hasBody, body) ==
    [method |-> method, path |-> path, auth |-> auth, hasBody |-> hasBody,
     body |-> body, originalUrl |-> path \o search]

NoSearch == <<>>
NoBody == EmptyObj

\* req.headers.authorization: no header, or the one value received.
NoAuth == <<>>
Auth(value) == << value >>

\* Requests matched by app.all("/api/v1/{*path}").
Requests ==
    { Request("GET", FeedPath, NoSearch, Auth("Bearer A"), FALSE, NoBody),
      Request("GET", FeedPath, << "?", "limit=20" >>, NoAuth, FALSE, NoBody),
      Request("GET", FeedSubPath, NoSearch, Auth(""), FALSE, NoBody),
      Request("GET", UpperPath, NoSearch, Auth("Bearer A"), FALSE, NoBody),
      Request("GET", TasksPath, << "?", "a=1", "?", "b=2" >>, Auth("Bearer A"), TRUE,
              [title |-> JStr("T")]),
      Request("HEAD", TasksPath, << "?" >>, Auth("Bearer A"), FALSE, NoBody),
      Request("OPTIONS", TasksPath, NoSearch, NoAuth, TRUE, [title |-> JStr("T")]),
      Request("POST", TasksPath, NoSearch, Auth("Bearer A"), TRUE, [title |-> JStr("T")]),
      Request("POST", TasksPath, NoSearch, NoAuth, TRUE, NoBody),
      Request("DELETE", NestedPath, NoSearch, Auth("Bearer B"), FALSE, NoBody) }

\* The requests of a client that reads its feed again and again.
SessionRequests == { Request("GET", FeedPath, NoSearch, Auth("Bearer A"), FALSE, NoBody) }

\* The route of line 128 matches the paths under /api/v1; the router
\* compares the literal part of a route without regard to case, as no
\* option of the route or of the application makes it case sensitive.
IsProxyRoute(r) == Len(r.path) >= 2 /\ r.path[1] \in {"/api/v1", "/API/V1"}

\* req.path.replace("/api/v1", "/v1"): the first occurrence only.
RECURSIVE RewritePath(_)
RewritePath(path) ==
    IF path = <<>> THEN <<>>
    ELSE IF Head(path) = "/api/v1" THEN << "/v1" >> \o Tail(path)
    ELSE << Head(path) >> \o RewritePath(Tail(path))

\* url.includes(sep)
Includes(url, sep) == \E i \in 1..Len(url) : url[i] = sep

\* url.split(sep)
RECURSIVE Split(_, _)
Split(url, sep) ==
    IF ~Includes(url, sep) THEN << url >>
    ELSE LET i == CHOOSE j \in 1..Len(url) :
                     url[j] = sep /\ \A h \in 1..(j - 1) : url[h] # sep
         IN  << SubSeq(url, 1, i - 1) >> \o Split(SubSeq(url, i + 1, Len(url)), sep)

\* parts.join(sep)
RECURSIVE Join(_, _)
Join(parts, sep) ==
    IF parts = <<>> THEN <<>>
    ELSE IF Len(parts) = 1 THEN parts[1]
    ELSE parts[1] \o << sep >> \o Join(Tail(parts), sep)

\* Lines 9-11: "?" + originalUrl.split("?").slice(1).join("?"), or "".
QueryString(originalUrl) ==
    IF Includes(originalUrl, "?")
    THEN << "?" >> \o Join(Tail(Split(originalUrl, "?")), "?")
    ELSE <<>>

\* path.startsWith("/v1/feed")
StartsWithFeed(path) ==
    Len(path) >= 2 /\ path[1] = "/v1" /\ path[2] = "/feed"

\* Lines 14-19: Content-Type always, and the Authorization header copied
\* when req.headers.authorization is truthy.
Headers(r) ==
    [contentType |-> "application/json",
     authorization |-> IF r.auth # NoAuth /\ r.auth[1] # "" THEN r.auth ELSE NoAuth]

\* Variant: the body is forwarded whatever the method.
SendsBody_AnyMethod(r) ==
    /\ r.hasBody
    /\ DOMAIN r.body # {}

\* Line 27: the request body is forwarded for a method other than GET, HEAD
\* and OPTIONS when req.body is an object with at least one key.
SendsBody(r) ==
    /\ r.method \notin {"GET", "HEAD", "OPTIONS"}
    /\ r.hasBody
    /\ DOMAIN r.body # {}

\* The fetch of line 31.  The body is JSON.stringify(req.body), which denotes
\* the JSON value that express parsed.
MainCall(r) ==
    [method |-> r.method, path |-> RewritePath(r.path),
     hasBody |-> SendsBody(r),
     body |-> IF SendsBody(r) THEN r.body ELSE NoBody,
     query |-> QueryString(r.originalUrl),
     headers |-> Headers(r)]

\* Variant: the task fetch is made without the headers of the request.
TaskCall_NoAuth(r, tid) ==
    [method |-> "GET", path |-> << "/v1", "/tasks/", tid >>,
     hasBody |-> FALSE, body |-> NoBody, query |-> <<>>,
     headers |-> [contentType |-> "application/json", authorization |-> NoAuth]]

\* The fetch of line 50: a GET of /v1/tasks/<tid> with the same headers.
TaskCall(r, tid) ==
    [method |-> "GET", path |-> << "/v1", "/tasks/", tid >>,
     hasBody |-> FALSE, body |-> NoBody, query |-> <<>>, headers |-> Headers(r)]

(***************************************************************************)
(* Upstream replies.                                                       *)
(***************************************************************************)
NoJson == [isArr |-> FALSE, data |-> <<>>, rest |-> ""]

\* Parsed JSON bodies: isArr says that body.data is a list; rest stands for
\* all other top-level fields (nextCursor, or an error object).
JsonBodies ==
    { [isArr |-> FALSE, data |-> <<>>, rest |-> "error"] } \cup
    { [isArr |-> TRUE, data |-> l, rest |-> "nextCursor"] : l \in FeedLists(MaxItems) }

Statuses == {200, 204, 404}

UpstreamResponses ==
    { [status |-> s, ctype |-> "json", parses |-> TRUE, json |-> b, text |-> ""] :
        s \in Statuses, b \in JsonBodies } \cup
    { [status |-> s, ctype |-> "json", parses |-> FALSE, json |-> NoJson, text |-> "<html>"] :
        s \in Statuses } \cup
    { [status |-> s, ctype |-> c, parses |-> FALSE, json |-> NoJson, text |-> "plain"] :
        s \in Statuses, c \in {"text", "none"} }

\* A reply to a HEAD request has no body: response.json() rejects on it and
\* response.text() gives "".
BodilessResponses ==
    { [status |-> s, ctype |-> c, parses |-> FALSE, json |-> NoJson, text |-> ""] :
        s \in Statuses, c \in {"json", "text", "none"} }

RepliesTo(r) == IF r.method = "HEAD" THEN BodilessResponses ELSE UpstreamResponses

NoResponse == [status |-> 0, ctype |-> "none", parses |-> FALSE, json |-> NoJson, text |-> ""]

\* Task details the upstream may return for a task id.
TaskBodies(tid) ==
    { [title |-> JStr(tid), rewardXp |-> JNum(10), id |-> JStr(tid), dueAt |-> JStr("d1")],
      [id |-> JStr(tid), dueAt |-> JNull],
      [rewardXp |-> JNum(5), id |-> JStr(tid)] }

\* Outcomes of one task-detail fetch that settles: a 2xx reply with a task,
\* a non-2xx reply, a rejected fetch, a 2xx reply whose body does not parse.
TaskOutcomes(tid) ==
    { [kind |-> "ok", task |-> t] : t \in TaskBodies(tid) } \cup
    { [kind |-> k, task |-> EmptyObj] : k \in {"status", "throw", "badjson"} }

(***************************************************************************)
(* Feed enrichment, lines 40-69.                                           *)
(***************************************************************************)
\* The filter of lines 41-43.
NeedsEnrich(item) ==
    /\ item.taskId # NoTaskId
    /\ item.hasPayload
    /\ ~TruthyKey(item.payload, "taskTitle")
    /\ ~TruthyKey(item.payload, "title")

\* Variant: the task ids of the selected items without the Set.
RECURSIVE DistinctTaskIds_NoDedup(_, _)
DistinctTaskIds_NoDedup(items, seen) ==
    IF items = <<>> THEN <<>>
    ELSE IF NeedsEnrich(Head(items))
         THEN << Head(items).taskId >> \o DistinctTaskIds_NoDedup(Tail(items), seen)
         ELSE DistinctTaskIds_NoDedup(Tail(items), seen)

\* [...new Set(needsEnrich.map(item => item.taskId))]: the distinct task ids
\* in order of first occurrence.
RECURSIVE DistinctTaskIds(_, _)
DistinctTaskIds(items, seen) ==
    IF items = <<>> THEN <<>>
    ELSE LET item == Head(items)
         IN  IF NeedsEnrich(item) /\ item.taskId \notin seen
             THEN << item.taskId >> \o DistinctTaskIds(Tail(items), seen \cup {item.taskId})
             ELSE DistinctTaskIds(Tail(items), seen)

Range(seq) == { seq[i] : i \in 1..Len(seq) }

\* Variant: the reward is added to the one the payload already has.
MergeItem_Accumulate(item, details) ==
    IF /\ item.taskId # NoTaskId
       /\ item.taskId \in DOMAIN details
       /\ ~TruthyKey(item.payload, "taskTitle")
       /\ ~TruthyKey(item.payload, "title")
    THEN LET task == details[item.taskId]
         IN  [item EXCEPT
                !.hasPayload = TRUE,
                !.payload = Spread(item.payload,
                              [taskTitle |-> OrDefault(task, "title", JStr("")),
                               rewardXp |-> JNum(OrDefault(item.payload, "rewardXp", JNum(0)).n
                                                 + OrDefault(task, "rewardXp", JNum(0)).n),
                               dueAt |-> OrDefault(task, "dueAt", JNull)])]
    ELSE item

\* Variant: the merge without the test for an existing title.
MergeItem_Overwrite(item, details) ==
    IF item.taskId # NoTaskId /\ item.taskId \in DOMAIN details
    THEN LET task == details[item.taskId]
         IN  [item EXCEPT
                !.hasPayload = TRUE,
                !.payload = Spread(item.payload,
                              [taskTitle |-> OrDefault(task, "title", JStr("")),
                               rewardXp |-> OrDefault(task, "rewardXp", JNum(0)),
                               dueAt |-> OrDefault(task, "dueAt", JNull)])]
    ELSE item

\* The body of the loop of lines 57-67 for one item.
MergeItem(item, details) ==
    IF /\ item.taskId # NoTaskId
       /\ item.taskId \in DOMAIN details
       /\ ~TruthyKey(item.payload, "taskTitle")
       /\ ~TruthyKey(item.payload, "title")
    THEN LET task == details[item.taskId]
         IN  [item EXCEPT
                !.hasPayload = TRUE,
                !.payload = Spread(item.payload,
                              [taskTitle |-> OrDefault(task, "title", JStr("")),
                               rewardXp |-> OrDefault(task, "rewardXp", JNum(0)),
                               dueAt |-> OrDefault(task, "dueAt", JNull)])]
    ELSE item

\* Variant: the enriched items are collected first, the others after them.
MergeAll_EnrichedFirst(items, details) ==
    LET merged == [i \in 1..Len(items) |-> MergeItem(items[i], details)]
        Changed(i) == merged[i] # items[i]
        first == { i \in 1..Len(items) : Changed(i) }
        Pos(i) == IF Changed(i)
                  THEN Cardinality({ j \in first : j <= i })
                  ELSE Cardinality(first) + Cardinality({ j \in 1..i : ~Changed(j) })
    IN  [n \in 1..Len(items) |-> merged[CHOOSE i \in 1..Len(items) : Pos(i) = n]]

\* The loop of lines 57-67 over data.data, in list order.
MergeAll(items, details) ==
    [i \in 1..Len(items) |-> MergeItem(items[i], details)]

(***************************************************************************)
(* Responses of the gateway.                                               *)
(***************************************************************************)
ProxyErrorBody ==
    [error |-> [code |-> "PROXY_ERROR", message |-> "Failed to reach TaskQuest API"]]

JsonReply(status, body) == [status |-> status, json |-> body, text |-> "", kind |-> "json"]
\* Variant: res.send(text) without res.status(...).
TextReply_DefaultStatus(status, text) == [status |-> 200, json |-> NoJson, text |-> text, kind |-> "text"]

\* Lines 73-74.
TextReply(status, text) == [status |-> status, json |-> NoJson, text |-> text, kind |-> "text"]
EmptyReply(status) == [status |-> status, json |-> NoJson, text |-> "", kind |-> "empty"]

(***************************************************************************)
(* POST /api/xp-suggest: requests, replies of the generative service and   *)
(* the arithmetic of line 120.                                             *)
(***************************************************************************)
IsXpRoute(r) == r.method = "POST" /\ r.path = XpPath

\* A request body with the given keys present.
XpBody(hasTitle, title, hasDescription, description) ==
    [key \in (IF hasTitle THEN {"title"} ELSE {}) \cup
             (IF hasDescription THEN {"description"} ELSE {})
        |-> IF key = "title" THEN title ELSE description]

\* req.body is undefined when no body was parsed (hasBody = FALSE).
XpRequests ==
    { Request("POST", XpPath, NoSearch, NoAuth, FALSE, NoBody) } \cup
    { Request("POST", XpPath, NoSearch, NoAuth, TRUE, XpBody(ht, t, hd, JStr("two rooms"))) :
        ht \in BOOLEAN, t \in {JStr("Clean"), JStr(""), JNull}, hd \in BOOLEAN }

\* The user message of line 112, as pieces.
UserMessage(body) ==
    << "Title: ", body["title"].s >> \o
    (IF TruthyKey(body, "description")
     THEN << "\nDescription: ", body["description"].s >>
     ELSE <<>>)

\* The request of lines 96-117.
AiCall(body) == [model |-> "gpt-5-nano", user |-> UserMessage(body), format |-> "json_object"]

\* Values the generative service may put in suggestedXp and justification.
XpValues == { JNum(-5), JNum(0), JNum(3), JNum(5), JNum(27), JNum(50), JNum(1000),
              JFrac(12), JFrac(2), JFrac(50), JStr("20"), JStr("abc"), JStr(""),
              JBool(TRUE), JBool(FALSE), JNull }
JustificationValues == { JStr("because"), JStr(""), JNum(7), JBool(TRUE), JNull }

AiObject(hasXp, xp, hasJ, j) ==
    [key \in (IF hasXp THEN {"suggestedXp"} ELSE {}) \cup
             (IF hasJ THEN {"justification"} ELSE {})
        |-> IF key = "suggestedXp" THEN xp ELSE j]

AiObjects ==
    { AiObject(TRUE, xp, TRUE, j) : xp \in XpValues, j \in JustificationValues } \cup
    { AiObject(TRUE, xp, FALSE, JNull) : xp \in XpValues } \cup
    { AiObject(FALSE, JNull, TRUE, j) : j \in JustificationValues } \cup
    { EmptyObj }

\* The content of the first choice: none (no choice, no message, null or
\* empty content), text that is not JSON, the JSON null, a JSON scalar or
\* array, or a JSON object.
AiReplies ==
    { [obj |-> EmptyObj, kind |-> c] : c \in {"nocontent", "invalid", "null", "scalar"} } \cup
    { [obj |-> o, kind |-> "object"] : o \in AiObjects }
NoAiReply == [obj |-> EmptyObj, kind |-> "none"]

\* Strings that convert to a number; every other non-blank string is NaN.
NumericStrings == ("20" :> 20)

\* ToNumber, as Math.min applies it to its arguments.
ToNumber(v) ==
    CASE v.k \in {"num", "frac", "nan"} -> v
      [] v.k = "bool" -> JNum(v.n)
      [] v.k = "null" -> JNum(0)
      [] v.k = "str" -> IF v.s = "" THEN JNum(0)
                        ELSE IF v.s \in DOMAIN NumericStrings THEN JNum(NumericStrings[v.s])
                        ELSE NaN

\* Twice the value of a number, to order integers and halves.
Twice(v) == IF v.k = "frac" THEN 2 * v.n + 1 ELSE 2 * v.n

MathMin(a, b) ==
    IF a.k = "nan" \/ b.k = "nan" THEN NaN
    ELSE IF Twice(a) <= Twice(b) THEN a ELSE b

MathMax(a, b) ==
    IF a.k = "nan" \/ b.k = "nan" THEN NaN
    ELSE IF Twice(a) >= Twice(b) THEN a ELSE b

\* Line 120.
SuggestedXp(result) ==
    MathMax(JNum(5), MathMin(JNum(50), ToNumber(OrDefault(result, "suggestedXp", JNum(10)))))

\* JSON.stringify writes NaN as null.
Stringify(v) == IF v.k = "nan" THEN JNull ELSE v

\* Line 121.
XpSuccessBody(result) ==
    [suggestedXp |-> Stringify(SuggestedXp(result)),
     justification |-> OrDefault(result, "justification", JStr(""))]

BadRequestBody == [error |-> [code |-> "BAD_REQUEST", message |-> "Title is required"]]
AiErrorBody == [error |-> [code |-> "AI_ERROR", message |-> "Failed to generate XP suggestion"]]

(***************************************************************************)
(* One invocation of proxyToApi.                                           *)
(***************************************************************************)
VARIABLES
    req,          \* the inbound request
    pc,           \* "start", "awaitMain", "awaitTasks", "done"
    calls,        \* the outbound requests issued so far, in order
    up,           \* the upstream reply to the forwarded request
    data,         \* the parsed body, mutated in place by the merge
    fetchState,   \* task id -> state of its detail fetch
    settled,      \* task ids in the order their fetches settled
    taskDetails,  \* task id -> fetched task
    responses,    \* what was sent to the client, in order
    aiCalls,      \* the requests made to the generative service, in order
    aiReply,      \* the reply of the generative service
    served,       \* the number of requests the process has answered before this one
    storedToken,  \* client: the token in AsyncStorage under TOKEN_KEY
    authToken,    \* client: _authToken of the query client
    user,         \* client: the user of the auth context
    isLoading,    \* client: isLoading of the auth context
    queryCache,   \* client: whether the query cache holds data
    opPc,         \* client: operation -> where its invocation stands
    opToken,      \* client: operation -> its local variable token
    opAlone,      \* client: operation -> no other operation ran during its invocation
    started       \* client: the number of operations the user has started

vars == << req, pc, calls, up, data, fetchState, settled, taskDetails, responses,
           aiCalls, aiReply, served,
           storedToken, authToken, user, isLoading, queryCache, opPc, opToken, opAlone, started >>

\* The state of the proxy handler apart from the request and the response,
\* and the state of the XP-suggestion handler.
proxyVars == << calls, up, data, fetchState, settled, taskDetails >>
xpVars == << aiCalls, aiReply >>
gatewayVars == << req, pc, proxyVars, responses, xpVars, served >>

\* The state of the mobile client (lib/auth-context.tsx, lib/query-client.ts).
sessionVars == << storedToken, authToken, user, queryCache >>
clientVars == << sessionVars, isLoading, opPc, opToken, opAlone, started >>

(***************************************************************************)
(* The auth context of the client.  Tokens and users are names; "" stands  *)
(* for null.                                                               *)
(***************************************************************************)
NoToken == ""
NoUser == ""
Ops == {"loadStoredAuth", "login", "register", "logout", "refreshProfile"}

\* The AuthResponse of /auth/login and of /auth/register.
AuthResponse(o) ==
    IF o = "login" THEN [user |-> "U1", accessToken |-> "T1"]
    ELSE [user |-> "U2", accessToken |-> "T2"]

\* The profile /auth/me returns for a token it accepts.
ProfileOf(token) ==
    CASE token = "T0" -> "U0"
      [] token = "T1" -> "U1"
      [] token = "T2" -> "U2"

InFlight(o) == opPc[o] \notin {"idle", "done", "failed"}

\* Lines 23-28 and the initial value of _authToken: the provider mounts and
\* its effect calls loadStoredAuth.
ClientStart ==
    /\ storedToken \in {NoToken, "T0"}
    /\ authToken = NoToken
    /\ user = NoUser
    /\ isLoading = TRUE
    /\ queryCache = FALSE
    /\ opPc = [o \in Ops |-> IF o = "loadStoredAuth" THEN "getItem" ELSE "idle"]
    /\ opToken = [o \in Ops |-> NoToken]
    /\ opAlone = [o \in Ops |-> TRUE]
    /\ started = 0

GatewayStart ==
    /\ req \in Requests \cup XpRequests
    /\ pc = "start"
    /\ calls = <<>>
    /\ up = NoResponse
    /\ data = NoJson
    /\ fetchState = [tid \in {} |-> "pending"]
    /\ settled = <<>>
    /\ taskDetails = [tid \in {} |-> EmptyObj]
    /\ responses = <<>>
    /\ aiCalls = <<>>
    /\ aiReply = NoAiReply
    /\ served = 0

\* The gateway, with a client that is not running.
Init ==
    /\ GatewayStart
    /\ ClientStart
    /\ storedToken = NoToken

\* Lines 8-31: build the URL and the headers, issue the forwarded request.
Forward ==
    /\ pc = "start"
    /\ IsProxyRoute(req)
    /\ calls' = Append(calls, MainCall(req))
    /\ pc' = "awaitMain"
    /\ UNCHANGED << req, up, data, fetchState, settled, taskDetails, responses, xpVars, served, clientVars >>

\* Variant: a rejected fetch is tried once more before giving up.
MainFetchReject_Retry ==
    /\ pc = "awaitMain"
    /\ calls' = Append(calls, MainCall(req))
    /\ responses' = Append(responses, JsonReply(502, ProxyErrorBody))
    /\ pc' = "done"
    /\ UNCHANGED << req, up, data, fetchState, settled, taskDetails, xpVars, served, clientVars >>

\* Variant: the catch logs the error and sends nothing.
MainFetchReject_Silent ==
    /\ pc = "awaitMain"
    /\ pc' = "done"
    /\ UNCHANGED << req, calls, up, data, fetchState, settled, taskDetails, responses, xpVars, served, clientVars >>

\* Lines 75-80: the awaited fetch of line 31 rejects.
MainFetchReject ==
    /\ pc = "awaitMain"
    /\ responses' = Append(responses, JsonReply(502, ProxyErrorBody))
    /\ pc' = "done"
    /\ UNCHANGED << req, calls, up, data, fetchState, settled, taskDetails, xpVars, served, clientVars >>

\* Variant: the 204 test placed after the JSON branch.
IsNoContent_AfterJson(r) == r.status = 204 /\ r.ctype # "json"

\* Line 33.
IsNoContent(r) == r.status = 204

\* Lines 33-74: with the reply r the handler runs up to its next await that
\* depends on the network, or to its response.
Deliver(r) ==
    /\ up' = r
    /\ IF IsNoContent(r)
       THEN /\ responses' = Append(responses, EmptyReply(204))
            /\ pc' = "done"
            /\ UNCHANGED << calls, data, fetchState >>
       ELSE IF r.ctype = "json"
       THEN IF ~r.parses
            THEN \* response.json() rejects: caught at line 75
                 /\ responses' = Append(responses, JsonReply(502, ProxyErrorBody))
                 /\ pc' = "done"
                 /\ UNCHANGED << calls, data, fetchState >>
            ELSE LET taskIds == IF StartsWithFeed(RewritePath(req.path)) /\ r.json.isArr
                                THEN DistinctTaskIds(r.json.data, {})
                                ELSE <<>>
                 IN  /\ data' = r.json
                     /\ IF taskIds # <<>>
                        THEN /\ calls' = calls \o [i \in 1..Len(taskIds) |-> TaskCall(req, taskIds[i])]
                             /\ fetchState' = [tid \in Range(taskIds) |-> "pending"]
                             /\ pc' = "awaitTasks"
                             /\ UNCHANGED responses
                        ELSE /\ responses' = Append(responses, JsonReply(r.status, r.json))
                             /\ pc' = "done"
                             /\ UNCHANGED << calls, fetchState >>
       ELSE /\ responses' = Append(responses, TextReply(r.status, r.text))
            /\ pc' = "done"
            /\ UNCHANGED << calls, data, fetchState >>
    /\ UNCHANGED << req, settled, taskDetails, xpVars, served, clientVars >>

\* Line 31: some reply of the upstream arrives.
MainFetchRespond ==
    /\ pc = "awaitMain"
    /\ \E r \in RepliesTo(req) : Deliver(r)

\* Variant: no try/catch around the fetch, so a rejection rejects the
\* Promise.all and reaches the catch of line 75.
TaskFetchSettle_Uncaught(tid, o) ==
    /\ pc = "awaitTasks"
    /\ tid \in DOMAIN fetchState
    /\ fetchState[tid] = "pending"
    /\ fetchState' = [fetchState EXCEPT ![tid] = o.kind]
    /\ settled' = Append(settled, tid)
    /\ taskDetails' = IF o.kind = "ok" THEN (tid :> o.task) @@ taskDetails ELSE taskDetails
    /\ IF o.kind \in {"throw", "badjson"}
       THEN /\ responses' = Append(responses, JsonReply(502, ProxyErrorBody))
            /\ pc' = "done"
       ELSE UNCHANGED << pc, responses >>
    /\ UNCHANGED << req, calls, up, data, xpVars, served, clientVars >>

\* Lines 48-55: the fetch for tid settles with outcome o; only a 2xx reply
\* that parses is stored.
TaskFetchSettle(tid, o) ==
    /\ pc = "awaitTasks"
    /\ tid \in DOMAIN fetchState
    /\ fetchState[tid] = "pending"
    /\ fetchState' = [fetchState EXCEPT ![tid] = o.kind]
    /\ settled' = Append(settled, tid)
    /\ taskDetails' = IF o.kind = "ok" THEN (tid :> o.task) @@ taskDetails ELSE taskDetails
    /\ UNCHANGED << req, pc, calls, up, data, responses, xpVars, served, clientVars >>

\* Line 50 with no timeout: the upstream never answers the fetch for tid.
TaskFetchHang(tid) ==
    /\ pc = "awaitTasks"
    /\ tid \in DOMAIN fetchState
    /\ fetchState[tid] = "pending"
    /\ fetchState' = [fetchState EXCEPT ![tid] = "hung"]
    /\ UNCHANGED << req, pc, calls, up, data, settled, taskDetails, responses, xpVars, served, clientVars >>

\* Variant: Promise.race, which resolves with the first fetch that settles.
AllSettled_Race == \E tid \in DOMAIN fetchState : fetchState[tid] \notin {"pending", "hung"}

\* Promise.all of line 47 resolves once every fetch has settled.
AllSettled == \A tid \in DOMAIN fetchState : fetchState[tid] \notin {"pending", "hung"}

\* Variant: res.json(data) without res.status(...), which answers 200.
MergeAndRespond_DefaultStatus ==
    /\ pc = "awaitTasks"
    /\ AllSettled
    /\ data' = [data EXCEPT !.data = MergeAll(data.data, taskDetails)]
    /\ responses' = Append(responses, JsonReply(200, data'))
    /\ pc' = "done"
    /\ UNCHANGED << req, calls, up, fetchState, settled, taskDetails, xpVars, served, clientVars >>

\* Lines 57-70: merge in list order and answer with the upstream status.
MergeAndRespond ==
    /\ pc = "awaitTasks"
    /\ AllSettled
    /\ data' = [data EXCEPT !.data = MergeAll(data.data, taskDetails)]
    /\ responses' = Append(responses, JsonReply(up.status, data'))
    /\ pc' = "done"
    /\ UNCHANGED << req, calls, up, fetchState, settled, taskDetails, xpVars, served, clientVars >>

\* Lines 85-117: destructure the body, validate the title, call the
\* generative service.
XpValidate ==
    /\ pc = "start"
    /\ IsXpRoute(req)
    /\ IF ~req.hasBody
       THEN \* destructuring undefined throws: caught at line 122
            /\ responses' = Append(responses, JsonReply(500, AiErrorBody))
            /\ pc' = "done"
            /\ UNCHANGED aiCalls
       ELSE IF ~TruthyKey(req.body, "title")
       THEN /\ responses' = Append(responses, JsonReply(400, BadRequestBody))
            /\ pc' = "done"
            /\ UNCHANGED aiCalls
       ELSE /\ aiCalls' = Append(aiCalls, AiCall(req.body))
            /\ pc' = "awaitAI"
            /\ UNCHANGED responses
    /\ UNCHANGED << req, proxyVars, aiReply, served, clientVars >>

\* Variant: the catch answers as the proxy's catch does.
XpFail_ProxyError ==
    /\ pc = "awaitAI"
    /\ responses' = Append(responses, JsonReply(502, ProxyErrorBody))
    /\ pc' = "done"
    /\ UNCHANGED << req, proxyVars, xpVars, served, clientVars >>

\* Lines 122-125: the awaited call of line 96 rejects.
XpFail ==
    /\ pc = "awaitAI"
    /\ responses' = Append(responses, JsonReply(500, AiErrorBody))
    /\ pc' = "done"
    /\ UNCHANGED << req, proxyVars, xpVars, served, clientVars >>

\* Lines 119-125 with the completion a.
XpAnswer(a) ==
    /\ aiReply' = a
    /\ responses' = Append(responses,
          IF a.kind \in {"invalid", "null"}
          THEN \* JSON.parse throws, or a property of null is read
               JsonReply(500, AiErrorBody)
          ELSE JsonReply(200, XpSuccessBody(a.obj)))
    /\ pc' = "done"
    /\ UNCHANGED << req, proxyVars, aiCalls, served, clientVars >>

\* Line 96: the generative service answers.
XpReply ==
    /\ pc = "awaitAI"
    /\ \E a \in AiReplies : XpAnswer(a)

\* Variant: taskDetails is a module-level cache that outlives the request.
NextRequest_KeepDetails ==
    /\ pc = "done"
    /\ served < MaxRequests - 1
    /\ req' \in SessionRequests
    /\ pc' = "start"
    /\ calls' = <<>>
    /\ up' = NoResponse
    /\ data' = NoJson
    /\ fetchState' = [tid \in {} |-> "pending"]
    /\ settled' = <<>>
    /\ responses' = <<>>
    /\ served' = served + 1
    /\ UNCHANGED << taskDetails, xpVars, clientVars >>

\* The process takes its next request: the handler runs again, with new
\* locals (lines 8-46); nothing of the module outlives an invocation.
NextRequest ==
    /\ pc = "done"
    /\ served < MaxRequests - 1
    /\ req' \in SessionRequests
    /\ pc' = "start"
    /\ calls' = <<>>
    /\ up' = NoResponse
    /\ data' = NoJson
    /\ fetchState' = [tid \in {} |-> "pending"]
    /\ settled' = <<>>
    /\ taskDetails' = [tid \in {} |-> EmptyObj]
    /\ responses' = <<>>
    /\ served' = served + 1
    /\ UNCHANGED << xpVars, clientVars >>

Next ==
    \/ Forward
    \/ MainFetchReject
    \/ MainFetchRespond
    \/ \E tid \in TaskIds : \E o \in TaskOutcomes(tid) : TaskFetchSettle(tid, o)
    \/ \E tid \in TaskIds : TaskFetchHang(tid)
    \/ MergeAndRespond
    \/ XpValidate
    \/ XpFail
    \/ XpReply

Spec == Init /\ [][Next]_vars

\* The event loop runs every continuation that is ready, and a reply that
\* arrives is delivered; nothing makes a hung fetch settle.
FairSpec ==
    /\ Spec
    /\ WF_vars(Forward)
    /\ WF_vars(MainFetchReject \/ MainFetchRespond)
    /\ WF_vars(\E tid \in TaskIds : \E o \in TaskOutcomes(tid) : TaskFetchSettle(tid, o))
    /\ WF_vars(MergeAndRespond)
    /\ WF_vars(XpValidate)
    /\ WF_vars(XpFail \/ XpReply)

\* A process that answers one feed request after the other.
SessionInit ==
    /\ Init
    /\ req \in SessionRequests

SessionNext ==
    \/ Forward
    \/ MainFetchReject
    \/ MainFetchRespond
    \/ \E tid \in TaskIds : \E o \in TaskOutcomes(tid) : TaskFetchSettle(tid, o)
    \/ \E tid \in TaskIds : TaskFetchHang(tid)
    \/ MergeAndRespond
    \/ NextRequest

SessionSpec == SessionInit /\ [][SessionNext]_vars

(***************************************************************************)
(* The operations of the auth context.  An operation gives way at each of  *)
(* its awaits: a storage call takes effect, or fails, in one step and the  *)
(* operation resumes in a later one; a network reply arrives in one step.  *)
(***************************************************************************)
Goto(o, label) == opPc' = [opPc EXCEPT ![o] = label]

\* The user starts operation o: it runs alone when no other operation is in
\* flight, and every operation in flight stops running alone.
Begin(o, label) ==
    /\ ~InFlight(o)
    /\ started < MaxOps
    /\ started' = started + 1
    /\ Goto(o, label)
    /\ opAlone' = [x \in Ops |->
                     IF x = o THEN \A y \in Ops \ {o} : ~InFlight(y)
                     ELSE IF InFlight(x) THEN FALSE
                     ELSE opAlone[x]]

\* Line 32: AsyncStorage.getItem reads the token, or rejects.
LoadRead ==
    /\ opPc["loadStoredAuth"] = "getItem"
    /\ \E ok \in BOOLEAN :
          IF ok
          THEN /\ opToken' = [opToken EXCEPT !["loadStoredAuth"] = storedToken]
               /\ Goto("loadStoredAuth", "gotItem")
          ELSE /\ Goto("loadStoredAuth", "threw")
               /\ UNCHANGED opToken
    /\ UNCHANGED << gatewayVars, sessionVars, isLoading, opAlone, started >>

\* Lines 33-35 and 46-48: with a token, set it and ask for the profile;
\* without one, only the finally block runs.
LoadGotItem ==
    /\ opPc["loadStoredAuth"] = "gotItem"
    /\ IF opToken["loadStoredAuth"] # NoToken
       THEN /\ authToken' = opToken["loadStoredAuth"]
            /\ Goto("loadStoredAuth", "fetching")
            /\ UNCHANGED isLoading
       ELSE /\ isLoading' = FALSE
            /\ Goto("loadStoredAuth", "done")
            /\ UNCHANGED authToken
    /\ UNCHANGED << gatewayVars, storedToken, user, queryCache, opToken, opAlone, started >>

\* Lines 35-39 with fetchProfile (51-63): the profile arrives and the user
\* is set, or fetchProfile gives null and removeItem is called.
LoadProfile ==
    /\ opPc["loadStoredAuth"] = "fetching"
    /\ \E ok \in BOOLEAN :
          IF ok
          THEN /\ user' = ProfileOf(opToken["loadStoredAuth"])
               /\ isLoading' = FALSE
               /\ Goto("loadStoredAuth", "done")
          ELSE /\ Goto("loadStoredAuth", "removing")
               /\ UNCHANGED << user, isLoading >>
    /\ UNCHANGED << gatewayVars, storedToken, authToken, queryCache, opToken, opAlone, started >>

\* Line 39: removeItem takes effect, or rejects.
LoadRemove ==
    /\ opPc["loadStoredAuth"] = "removing"
    /\ \E ok \in BOOLEAN :
          IF ok
          THEN /\ storedToken' = NoToken
               /\ Goto("loadStoredAuth", "removed")
          ELSE /\ Goto("loadStoredAuth", "threw")
               /\ UNCHANGED storedToken
    /\ UNCHANGED << gatewayVars, authToken, user, queryCache, isLoading, opToken, opAlone, started >>

\* Lines 40 and 46-48.
LoadRemoved ==
    /\ opPc["loadStoredAuth"] = "removed"
    /\ authToken' = NoToken
    /\ isLoading' = FALSE
    /\ Goto("loadStoredAuth", "done")
    /\ UNCHANGED << gatewayVars, storedToken, user, queryCache, opToken, opAlone, started >>

\* Lines 43-44: the catch calls removeItem, which takes effect or rejects.
LoadCatch ==
    /\ opPc["loadStoredAuth"] = "threw"
    /\ \E ok \in BOOLEAN :
          IF ok
          THEN /\ storedToken' = NoToken
               /\ Goto("loadStoredAuth", "caught")
          ELSE /\ Goto("loadStoredAuth", "catchThrew")
               /\ UNCHANGED storedToken
    /\ UNCHANGED << gatewayVars, authToken, user, queryCache, isLoading, opToken, opAlone, started >>

\* Lines 45-48.
LoadCaught ==
    /\ opPc["loadStoredAuth"] = "caught"
    /\ authToken' = NoToken
    /\ isLoading' = FALSE
    /\ Goto("loadStoredAuth", "done")
    /\ UNCHANGED << gatewayVars, storedToken, user, queryCache, opToken, opAlone, started >>

\* Lines 44 and 46-48: the rejection leaves the catch, the finally block
\* runs and loadStoredAuth rejects.
LoadCatchThrew ==
    /\ opPc["loadStoredAuth"] = "catchThrew"
    /\ isLoading' = FALSE
    /\ Goto("loadStoredAuth", "failed")
    /\ UNCHANGED << gatewayVars, sessionVars, opToken, opAlone, started >>

\* Lines 65-72 and 86-93: login or register sends its request.
SignStart(o) ==
    /\ Begin(o, "fetching")
    /\ UNCHANGED << gatewayVars, sessionVars, isLoading, opToken >>

\* Lines 74-77 and 95-98: a response that is not OK, or no response: the
\* operation throws.
SignRejected(o) ==
    /\ opPc[o] = "fetching"
    /\ Goto(o, "failed")
    /\ UNCHANGED << gatewayVars, sessionVars, isLoading, opToken, opAlone, started >>

\* Lines 79-80 and 100-101: the response is OK; setItem is called.
SignAccepted(o) ==
    /\ opPc[o] = "fetching"
    /\ opToken' = [opToken EXCEPT ![o] = AuthResponse(o).accessToken]
    /\ Goto(o, "setting")
    /\ UNCHANGED << gatewayVars, sessionVars, isLoading, opAlone, started >>

\* Lines 80 and 101: setItem takes effect, or rejects and the operation
\* throws.
SignStore(o) ==
    /\ opPc[o] = "setting"
    /\ \E ok \in BOOLEAN :
          IF ok
          THEN /\ storedToken' = opToken[o]
               /\ Goto(o, "stored")
          ELSE /\ Goto(o, "failed")
               /\ UNCHANGED storedToken
    /\ UNCHANGED << gatewayVars, authToken, user, queryCache, isLoading, opToken, opAlone, started >>

\* Variant: without queryClient.clear().
SignFinish_NoClear(o) ==
    /\ opPc[o] = "stored"
    /\ authToken' = opToken[o]
    /\ user' = AuthResponse(o).user
    /\ Goto(o, "done")
    /\ UNCHANGED << gatewayVars, storedToken, queryCache, isLoading, opToken, opAlone, started >>

\* Lines 81-83 and 102-104.
SignFinish(o) ==
    /\ opPc[o] = "stored"
    /\ authToken' = opToken[o]
    /\ user' = AuthResponse(o).user
    /\ queryCache' = FALSE
    /\ Goto(o, "done")
    /\ UNCHANGED << gatewayVars, storedToken, isLoading, opToken, opAlone, started >>

\* Lines 107-108: logout calls removeItem.
LogoutStart ==
    /\ Begin("logout", "removing")
    /\ UNCHANGED << gatewayVars, sessionVars, isLoading, opToken >>

\* Line 108: removeItem takes effect, or rejects and logout throws.
LogoutRemove ==
    /\ opPc["logout"] = "removing"
    /\ \E ok \in BOOLEAN :
          IF ok
          THEN /\ storedToken' = NoToken
               /\ Goto("logout", "removed")
          ELSE /\ Goto("logout", "failed")
               /\ UNCHANGED storedToken
    /\ UNCHANGED << gatewayVars, authToken, user, queryCache, isLoading, opToken, opAlone, started >>

\* Lines 109-111.
LogoutFinish ==
    /\ opPc["logout"] = "removed"
    /\ authToken' = NoToken
    /\ user' = NoUser
    /\ queryCache' = FALSE
    /\ Goto("logout", "done")
    /\ UNCHANGED << gatewayVars, storedToken, isLoading, opToken, opAlone, started >>

\* Lines 114-115: refreshProfile calls getItem.
RefreshStart ==
    /\ Begin("refreshProfile", "getItem")
    /\ UNCHANGED << gatewayVars, sessionVars, isLoading, opToken >>

\* Line 115: getItem reads the token, or rejects and refreshProfile throws.
RefreshRead ==
    /\ opPc["refreshProfile"] = "getItem"
    /\ \E ok \in BOOLEAN :
          IF ok
          THEN /\ opToken' = [opToken EXCEPT !["refreshProfile"] = storedToken]
               /\ Goto("refreshProfile", "gotItem")
          ELSE /\ Goto("refreshProfile", "failed")
               /\ UNCHANGED opToken
    /\ UNCHANGED << gatewayVars, sessionVars, isLoading, opAlone, started >>

\* Lines 116-117.
RefreshGotItem ==
    /\ opPc["refreshProfile"] = "gotItem"
    /\ Goto("refreshProfile", IF opToken["refreshProfile"] # NoToken THEN "fetching" ELSE "done")
    /\ UNCHANGED << gatewayVars, sessionVars, isLoading, opToken, opAlone, started >>

\* Lines 117-118 with fetchProfile (51-63).
RefreshProfile ==
    /\ opPc["refreshProfile"] = "fetching"
    /\ \E ok \in BOOLEAN :
          user' = IF ok THEN ProfileOf(opToken["refreshProfile"]) ELSE user
    /\ Goto("refreshProfile", "done")
    /\ UNCHANGED << gatewayVars, storedToken, authToken, queryCache, isLoading, opToken, opAlone, started >>

\* A query of a screen puts data in the query cache.
QueryFetched ==
    /\ ~queryCache
    /\ queryCache' = TRUE
    /\ UNCHANGED << gatewayVars, storedToken, authToken, user, isLoading, opPc, opToken, opAlone, started >>

AuthInit ==
    /\ GatewayStart
    /\ req \in SessionRequests
    /\ ClientStart

AuthNext ==
    \/ LoadRead
    \/ LoadGotItem
    \/ LoadProfile
    \/ LoadRemove
    \/ LoadRemoved
    \/ LoadCatch
    \/ LoadCaught
    \/ LoadCatchThrew
    \/ \E o \in {"login", "register"} : SignStart(o)
    \/ \E o \in {"login", "register"} : SignRejected(o)
    \/ \E o \in {"login", "register"} : SignAccepted(o)
    \/ \E o \in {"login", "register"} : SignStore(o)
    \/ \E o \in {"login", "register"} : SignFinish(o)
    \/ LogoutStart
    \/ LogoutRemove
    \/ LogoutFinish
    \/ RefreshStart
    \/ RefreshRead
    \/ RefreshGotItem
    \/ RefreshProfile
    \/ QueryFetched

AuthSpec == AuthInit /\ [][AuthNext]_vars

(***************************************************************************)
(* Vocabulary of the properties.                                           *)
(***************************************************************************)
Responded == responses # <<>>
Res == responses[1]

\* The handler parsed a JSON body of the upstream reply (line 39).
JsonParsed == up.status \notin {0, 204} /\ up.ctype = "json" /\ up.parses

\* The handler fanned out task-detail fetches and has answered.
Enriching == DOMAIN fetchState # {}
EnrichDone == pc = "done" /\ Enriching

\* The reply to the client carries a feed body with as many items as the
\* upstream sent.
RelaysItems ==
    /\ Responded
    /\ Res.kind = "json"
    /\ "data" \in DOMAIN Res.json
    /\ Len(Res.json.data) = Len(up.json.data)

InItem(i) == up.json.data[i]
OutItem(i) == Res.json.data[i]
ItemIdx == 1..Len(up.json.data)

SamePayload(i) ==
    /\ OutItem(i).hasPayload = InItem(i).hasPayload
    /\ OutItem(i).payload = InItem(i).payload

EnrichKeys == {"taskTitle", "rewardXp", "dueAt"}

\* The value of a task field, or dflt when the task has none (absent or null).
TaskValue(task, key, dflt) ==
    IF key \in DOMAIN task /\ task[key] # JNull THEN task[key] ELSE dflt

\* The payload carries the three fields of the task.
EnrichedFrom(item, task) ==
    /\ item.hasPayload
    /\ EnrichKeys \subseteq DOMAIN item.payload
    /\ item.payload.taskTitle = TaskValue(task, "title", JStr(""))
    /\ item.payload.rewardXp = TaskValue(task, "rewardXp", JNum(0))
    /\ item.payload.dueAt = TaskValue(task, "dueAt", JNull)

\* The forwarded request is calls[1]; the task-detail requests follow it.
TaskCallIdx == { i \in 1..Len(calls) : Len(calls[i].path) = 3 /\ calls[i].path[2] = "/tasks/" }
TaskCallId(i) == calls[i].path[3]

(***************************************************************************)
(* C1  Fault isolation.  Once a feed response with fanned-out fetches has  *)
(* been answered, the answer carries the upstream status, every item that  *)
(* was selected for enrichment and whose task was fetched successfully     *)
(* carries the task's fields, and every item whose task id was fetched     *)
(* without success has the payload the upstream sent.                      *)
(***************************************************************************)
FaultIsolation ==
    EnrichDone =>
        /\ Res.status = up.status
        /\ RelaysItems
        /\ \A i \in ItemIdx :
             LET tid == InItem(i).taskId
             IN  /\ (NeedsEnrich(InItem(i)) /\ fetchState[tid] = "ok")
                        => EnrichedFrom(OutItem(i), taskDetails[tid])
                 /\ (tid \in DOMAIN fetchState /\ fetchState[tid] # "ok")
                        => SamePayload(i)

\* One fetch failed and another succeeded in the same response, and both an
\* enriched and an untouched item were returned.
FaultIsolationWitness ==
    /\ EnrichDone
    /\ RelaysItems
    /\ \E i, j \in ItemIdx :
         /\ NeedsEnrich(InItem(i)) /\ fetchState[InItem(i).taskId] = "ok"
         /\ NeedsEnrich(InItem(j)) /\ fetchState[InItem(j).taskId] \in {"status", "throw"}
         /\ ~SamePayload(i)
         /\ SamePayload(j)

(***************************************************************************)
(* C2  A hung task-detail fetch does not block the response: once the      *)
(* handler waits for its task-detail fetches, it eventually answers the    *)
(* client.  (Checked under FairSpec.)                                      *)
(***************************************************************************)
HangDoesNotBlock == (pc = "awaitTasks") ~> Responded

(***************************************************************************)
(* C3  Enrichment never overwrites an existing title.                      *)
(***************************************************************************)
HasKey(item, key) == item.hasPayload /\ key \in DOMAIN item.payload

\* C3 as stated: an item whose payload contains the key taskTitle or the key
\* title, with any value, is returned with the payload the upstream sent.
TitleKeyKeepsPayload ==
    (JsonParsed /\ Responded) =>
        /\ RelaysItems
        /\ \A i \in ItemIdx :
             (HasKey(InItem(i), "taskTitle") \/ HasKey(InItem(i), "title"))
                 => SamePayload(i)

\* C3 as amended: an item whose payload holds a non-empty taskTitle or title
\* (a value other than "", null, 0) is returned with the payload the
\* upstream sent, whatever the task-detail fetches return.
NonEmptyTitleKeepsPayload ==
    (JsonParsed /\ Responded) =>
        /\ RelaysItems
        /\ \A i \in ItemIdx :
             (TruthyKey(InItem(i).payload, "taskTitle") \/ TruthyKey(InItem(i).payload, "title"))
                 => SamePayload(i)

\* An item with a title shares its task id with a selected item, the task
\* was fetched, and the titled item came back as it was sent.
NonEmptyTitleWitness ==
    /\ EnrichDone
    /\ RelaysItems
    /\ \E i, j \in ItemIdx :
         /\ TruthyKey(InItem(i).payload, "taskTitle")
         /\ InItem(i).taskId = InItem(j).taskId
         /\ NeedsEnrich(InItem(j))
         /\ fetchState[InItem(j).taskId] = "ok"
         /\ ~SamePayload(j)
         /\ SamePayload(i)

(***************************************************************************)
(* C4  Enrichment completeness.  When every task-detail fetch of a feed    *)
(* response succeeded, every item that has a taskId and a payload with     *)
(* neither a taskTitle nor a title key carries the task's title ("" if     *)
(* none), rewardXp (0 if none) and dueAt (null if none).                   *)
(***************************************************************************)
AllResolved == \A tid \in DOMAIN fetchState : fetchState[tid] = "ok"

LacksTitleKeys(item) ==
    /\ item.taskId # NoTaskId
    /\ item.hasPayload
    /\ "taskTitle" \notin DOMAIN item.payload
    /\ "title" \notin DOMAIN item.payload

EnrichmentComplete ==
    (pc = "done" /\ JsonParsed /\ StartsWithFeed(RewritePath(req.path)) /\ AllResolved) =>
        /\ RelaysItems
        /\ \A i \in ItemIdx :
             LacksTitleKeys(InItem(i)) =>
                 /\ InItem(i).taskId \in DOMAIN taskDetails
                 /\ EnrichedFrom(OutItem(i), taskDetails[InItem(i).taskId])

\* Two items of two tasks were enriched, one of them from a task that has
\* no title and no rewardXp.
EnrichmentCompleteWitness ==
    /\ EnrichDone
    /\ AllResolved
    /\ RelaysItems
    /\ \E i, j \in ItemIdx :
         /\ LacksTitleKeys(InItem(i)) /\ LacksTitleKeys(InItem(j))
         /\ InItem(i).taskId # InItem(j).taskId
         /\ "title" \notin DOMAIN taskDetails[InItem(i).taskId]
         /\ OutItem(i).payload.taskTitle = JStr("")
         /\ OutItem(j).payload.taskTitle = JStr(InItem(j).taskId)

(***************************************************************************)
(* C5  Order and count preservation.  The items returned to the client are *)
(* as many as the upstream sent and have the same ids in the same order,   *)
(* whatever the order in which the task-detail fetches settle.             *)
(***************************************************************************)
OrderPreserved ==
    (JsonParsed /\ Responded) =>
        /\ RelaysItems
        /\ \A i \in ItemIdx : OutItem(i).id = InItem(i).id

\* The fetch issued second settled first, and only the second item of the
\* list was changed.
OrderPreservedWitness ==
    /\ EnrichDone
    /\ RelaysItems
    /\ Len(settled) = 2
    /\ Len(calls) = 3
    /\ settled[1] = TaskCallId(3)
    /\ SamePayload(1)
    /\ ~SamePayload(2)

(***************************************************************************)
(* C6  Deduplicated fan-out.  No two task-detail requests of one feed      *)
(* response are for the same task id, and every task-detail request is for *)
(* the task id of some item selected for enrichment.                       *)
(***************************************************************************)
DedupFanOut ==
    /\ \A i, j \in TaskCallIdx : TaskCallId(i) = TaskCallId(j) => i = j
    /\ \A i \in TaskCallIdx :
         \E k \in ItemIdx : NeedsEnrich(InItem(k)) /\ InItem(k).taskId = TaskCallId(i)

\* Two selected items reference the same task and one request was issued.
DedupFanOutWitness ==
    /\ Enriching
    /\ Cardinality(TaskCallIdx) = 1
    /\ \E i, j \in ItemIdx :
         /\ i # j
         /\ NeedsEnrich(InItem(i)) /\ NeedsEnrich(InItem(j))
         /\ InItem(i).taskId = InItem(j).taskId

(***************************************************************************)
(* C7  Frame of enrichment.  Between what the upstream sent and what the   *)
(* client receives, only payload.taskTitle, payload.rewardXp and           *)
(* payload.dueAt of the items selected for enrichment may differ: the      *)
(* other top-level fields, the other fields of every item, the other       *)
(* payload keys and every item that was not selected are unchanged.        *)
(***************************************************************************)
EnrichmentFrame ==
    (JsonParsed /\ Responded) =>
        /\ RelaysItems
        /\ Res.json.rest = up.json.rest
        /\ Res.json.isArr = up.json.isArr
        /\ \A i \in ItemIdx :
             /\ OutItem(i).id = InItem(i).id
             /\ OutItem(i).type = InItem(i).type
             /\ OutItem(i).taskId = InItem(i).taskId
             /\ ~NeedsEnrich(InItem(i)) => OutItem(i) = InItem(i)
             /\ NeedsEnrich(InItem(i)) =>
                  /\ OutItem(i).hasPayload
                  /\ DOMAIN OutItem(i).payload \subseteq DOMAIN InItem(i).payload \cup EnrichKeys
                  /\ \A key \in DOMAIN InItem(i).payload \ EnrichKeys :
                       /\ key \in DOMAIN OutItem(i).payload
                       /\ OutItem(i).payload[key] = InItem(i).payload[key]

ErrorPassThrough ==
    (JsonParsed /\ up.status >= 400 /\ Responded) =>
        /\ Res.status = up.status
        /\ Res.kind = "json"
        /\ Res.json = up.json

(***************************************************************************)
(* C10  Upstream unreachable.  When the forwarded fetch rejects, the       *)
(* handler answers 502 with the PROXY_ERROR body and has issued no other   *)
(* upstream request than the one that failed.                              *)
(***************************************************************************)
MainFetchFailed == IsProxyRoute(req) /\ pc = "done" /\ up = NoResponse

\* C10 as stated, with the message "Failed to reach upstream API".
UnreachableGivesUpstreamMessage ==
    MainFetchFailed =>
        /\ responses = << JsonReply(502, [error |-> [code |-> "PROXY_ERROR",
                                                     message |-> "Failed to reach upstream API"]]) >>
        /\ Len(calls) = 1

\* C10 as amended: the message is "Failed to reach TaskQuest API".
UnreachableGives502 ==
    MainFetchFailed =>
        /\ responses = << JsonReply(502, [error |-> [code |-> "PROXY_ERROR",
                                                     message |-> "Failed to reach TaskQuest API"]]) >>
        /\ Len(calls) = 1
        /\ calls[1] = MainCall(req)

UnreachableGives502Witness ==
    /\ MainFetchFailed
    /\ Responded
    /\ Res.status = 502

(***************************************************************************)
(* C11  The 502 is originated only when the fetch failed.  Whenever the    *)
(* upstream delivered a response to the forwarded request, the status sent *)
(* to the client is the upstream status.                                   *)
(***************************************************************************)
UpstreamAnswered == IsProxyRoute(req) /\ up # NoResponse

UpstreamStatusRelayed ==
    UpstreamAnswered /\ Responded => Res.status = up.status

(***************************************************************************)
(* C12  No content.  On an upstream 204 the handler answers 204 with an    *)
(* empty body whatever the content type and the path: nothing is parsed    *)
(* and no task-detail fetch is issued.                                     *)
(***************************************************************************)
NoContentRelayed ==
    UpstreamAnswered /\ up.status = 204 =>
        /\ responses = << EmptyReply(204) >>
        /\ calls = << MainCall(req) >>
        /\ data = NoJson
        /\ pc = "done"

\* A 204 on the feed path that announces JSON and carries a feed whose
\* items would be selected for enrichment.
NoContentWitness ==
    /\ UpstreamAnswered
    /\ up.status = 204
    /\ req.path = FeedPath
    /\ up.ctype = "json"
    /\ up.parses
    /\ up.json.isArr
    /\ \E i \in 1..Len(up.json.data) : NeedsEnrich(up.json.data[i])

(***************************************************************************)
(* C13  Other content types.  An upstream response with a status other     *)
(* than 204 whose content type is not JSON, or is absent, is answered with *)
(* the same status and the raw text, on every path, and only the forwarded *)
(* request has been issued.                                                *)
(***************************************************************************)
TextRelayed ==
    UpstreamAnswered /\ up.status # 204 /\ up.ctype # "json" =>
        /\ responses = << [status |-> up.status, json |-> NoJson, text |-> up.text, kind |-> "text"] >>
        /\ calls = << MainCall(req) >>
        /\ pc = "done"

\* A 404 without content type on the feed path, with a non-empty text.
TextRelayedWitness ==
    /\ UpstreamAnswered
    /\ req.path = FeedPath
    /\ up.status = 404
    /\ up.ctype = "none"
    /\ up.text # ""
    /\ Responded

(***************************************************************************)
(* C14  Authorization pass-through.  Every outbound request, the forwarded *)
(* one and each task-detail fetch, carries an Authorization header if and  *)
(* only if the inbound request carried one, with the same value.           *)
(***************************************************************************)
HeaderValues(h) == { h[i] : i \in 1..Len(h) }

\* C14 as stated.
AuthPassThrough ==
    \A i \in 1..Len(calls) : calls[i].headers.authorization = req.auth

\* C14 as amended: ... if and only if the inbound request carried one with
\* a non-empty value.
AuthPassThroughNonEmpty ==
    \A i \in 1..Len(calls) :
        /\ Len(calls[i].headers.authorization) <= 1
        /\ HeaderValues(calls[i].headers.authorization) = HeaderValues(req.auth) \ {""}

\* Task-detail fetches were issued for a request that carried a token.
AuthPassThroughWitness ==
    /\ TaskCallIdx # {}
    /\ req.auth = << "Bearer A" >>
    /\ \A i \in TaskCallIdx : calls[i].headers.authorization = << "Bearer A" >>

(***************************************************************************)
(* C15  Method and body.  The forwarded request uses the inbound method;   *)
(* it carries a body if and only if the method is not GET, HEAD or OPTIONS *)
(* and a non-empty JSON body was received, and then the body is the        *)
(* received one, sent with Content-Type: application/json.                 *)
(***************************************************************************)
BodyReceived == req.hasBody /\ req.body # EmptyObj

ForwardedMethodAndBody ==
    IsProxyRoute(req) /\ calls # <<>> =>
        /\ calls[1].method = req.method
        /\ calls[1].hasBody <=> (req.method \notin {"GET", "HEAD", "OPTIONS"} /\ BodyReceived)
        /\ calls[1].hasBody =>
              /\ calls[1].body = req.body
              /\ calls[1].headers.contentType = "application/json"
        /\ ~calls[1].hasBody => calls[1].body = EmptyObj

\* A POST whose body was forwarded.
ForwardedMethodAndBodyWitness ==
    /\ IsProxyRoute(req)
    /\ calls # <<>>
    /\ req.method = "POST"
    /\ calls[1].hasBody
    /\ calls[1].body = [title |-> JStr("T")]

(***************************************************************************)
(* C16  Upstream URL.  For every request matched by the proxy route the    *)
(* forwarded path is the inbound path with its leading /api/v1 replaced by *)
(* /v1 and the rest untouched, followed by everything of the received URL  *)
(* from its first '?' on, or by nothing when it has no '?'.                *)
(***************************************************************************)
FirstQuestionMark(url) ==
    CHOOSE i \in 1..Len(url) : url[i] = "?" /\ \A j \in 1..(i - 1) : url[j] # "?"

ReceivedQuery(url) ==
    IF \E i \in 1..Len(url) : url[i] = "?"
    THEN SubSeq(url, FirstQuestionMark(url), Len(url))
    ELSE <<>>

UpstreamUrlRewritten ==
    IsProxyRoute(req) /\ calls # <<>> =>
        /\ calls[1].path = << "/v1" >> \o Tail(req.path)
        /\ calls[1].query = ReceivedQuery(req.originalUrl)

(***************************************************************************)
(* C17  Enrichment only on the feed listing.  For a proxied request whose  *)
(* path is not the feed-listing path, sub-resources of the feed included,  *)
(* no task-detail fetch is issued and a parsed JSON body is relayed as the *)
(* upstream sent it.                                                       *)
(***************************************************************************)
IsFeedListing(r) == r.path \in { FeedPath, UpperPath }

OnlyFeedListingEnriched ==
    IsProxyRoute(req) /\ ~IsFeedListing(req) =>
        /\ TaskCallIdx = {}
        /\ JsonParsed /\ Responded => Res = [status |-> up.status, json |-> up.json, text |-> "", kind |-> "json"]

(***************************************************************************)
(* C18  Required title.  An XP-suggestion request whose title is missing   *)
(* or empty, a request without body included, is answered 400 BAD_REQUEST  *)
(* "Title is required", and the generative service is not called.          *)
(***************************************************************************)
TitleMissing ==
    \/ ~req.hasBody
    \/ "title" \notin DOMAIN req.body
    \/ req.body["title"] = JStr("")

MissingTitleGives400 ==
    IsXpRoute(req) /\ TitleMissing /\ pc = "done" =>
        /\ responses = << [status |-> 400,
                           json |-> [error |-> [code |-> "BAD_REQUEST", message |-> "Title is required"]],
                           text |-> "", kind |-> "json"] >>
        /\ aiCalls = <<>>

(***************************************************************************)
(* C19  XP clamp.  For every parsed reply of the generative service the    *)
(* returned suggestedXp is min(50, max(5, v)) when the reply's suggestedXp *)
(* is a number v, and 10 when it is absent or not a number.                *)
(***************************************************************************)
ReplyParsed == IsXpRoute(req) /\ aiReply.kind = "object" /\ Responded

IsNumber(v) == v.k \in {"num", "frac"}

Clamped(v) ==
    IF Twice(v) < 2 * 5 THEN JNum(5)
    ELSE IF Twice(v) > 2 * 50 THEN JNum(50)
    ELSE v

XpClamp ==
    ReplyParsed =>
        /\ Res.status = 200
        /\ Res.json.suggestedXp =
              IF "suggestedXp" \in DOMAIN aiReply.obj /\ IsNumber(aiReply.obj["suggestedXp"])
              THEN Clamped(aiReply.obj["suggestedXp"])
              ELSE JNum(10)

(***************************************************************************)
(* C20  Shape of a success.  Every 200 response of the XP-suggestion       *)
(* endpoint has an integer suggestedXp between 5 and 50 and a string       *)
(* justification, the empty string when the reply has none.                *)
(***************************************************************************)
XpSuccessShape ==
    IsXpRoute(req) /\ Responded /\ Res.status = 200 =>
        /\ Res.json.suggestedXp.k = "num"
        /\ Res.json.suggestedXp.n >= 5
        /\ Res.json.suggestedXp.n <= 50
        /\ Res.json.justification.k = "str"
        /\ "justification" \notin DOMAIN aiReply.obj => Res.json.justification = JStr("")

(***************************************************************************)
(* C21  One call, no fallback.  For an XP request with a non-empty title   *)
(* the generative service is called exactly once; when the call fails or   *)
(* its reply is malformed the answer is 500 AI_ERROR and no suggestion.    *)
(***************************************************************************)
TitleGiven == IsXpRoute(req) /\ req.hasBody /\ TruthyKey(req.body, "title")

\* The reply carries no JSON object with the suggestion.
ReplyMalformed == aiReply.kind \in {"nocontent", "invalid", "null", "scalar"}

AiFailureGives500 ==
    TitleGiven /\ pc = "done" =>
        /\ Len(aiCalls) = 1
        /\ (aiReply = NoAiReply \/ ReplyMalformed) =>
              responses = << [status |-> 500,
                              json |-> [error |-> [code |-> "AI_ERROR",
                                                   message |-> "Failed to generate XP suggestion"]],
                              text |-> "", kind |-> "json"] >>

(***************************************************************************)
(* C22  Error envelope.  Every error the gateway originates has the body   *)
(* {error: {code, message}} and one of the pairs 400/BAD_REQUEST,          *)
(* 500/AI_ERROR, 502/PROXY_ERROR; the first two come from the XP route     *)
(* only and the third from the proxy route only.                           *)
(***************************************************************************)
ProxyOriginated ==
    /\ IsProxyRoute(req)
    /\ Responded
    /\ \/ up = NoResponse
       \/ (up.status # 204 /\ up.ctype = "json" /\ ~up.parses)

XpOriginated == IsXpRoute(req) /\ Responded /\ Res.status # 200

ErrorEnvelope ==
    (ProxyOriginated \/ XpOriginated) =>
        /\ Res.kind = "json"
        /\ DOMAIN Res.json = {"error"}
        /\ DOMAIN Res.json.error = {"code", "message"}
        /\ << Res.status, Res.json.error.code >> \in
              (IF IsProxyRoute(req)
               THEN { << 502, "PROXY_ERROR" >> }
               ELSE { << 400, "BAD_REQUEST" >>, << 500, "AI_ERROR" >> })

\* The generative call was made and the handler answered with an error.
ErrorEnvelopeWitness ==
    /\ XpOriginated
    /\ aiCalls # <<>>
    /\ aiReply = NoAiReply
    /\ Res.status = 500

(***************************************************************************)
(* C23  No state across requests.  In a process that answers one feed      *)
(* request after the other, what a request fetches and what it answers is  *)
(* fixed by the upstream replies of that request: the task details it      *)
(* holds are those its own fetches brought, and it fetches every task id   *)
(* of its feed again.                                                      *)
(***************************************************************************)
FetchedOk == { tid \in DOMAIN fetchState : fetchState[tid] = "ok" }

EnrichPass(items, results) ==
    LET ids == DistinctTaskIds(items, {})
        details == [tid \in Range(ids) \cap DOMAIN results |-> results[tid]]
    IN  MergeAll(items, details)

EnrichmentIdempotent ==
    EnrichDone => EnrichPass(Res.json.data, taskDetails) = Res.json.data

\* An item enriched from a task without title is selected again.
EnrichmentIdempotentWitness ==
    /\ EnrichDone
    /\ \E i \in ItemIdx :
          /\ OutItem(i) # InItem(i)
          /\ NeedsEnrich(OutItem(i))
          /\ OutItem(i).taskId \in DOMAIN taskDetails

(***************************************************************************)
(* C27  Join before merge.  The task-detail fetches of a request write     *)
(* only their own entry of the request's result map, and the feed items    *)
(* are modified, and the answer sent, only when every fetch has settled.   *)
(***************************************************************************)
StillInFlight == { tid \in DOMAIN fetchState : fetchState[tid] \in {"pending", "hung"} }

MergeAfterSettle ==
    /\ \A tid \in DOMAIN taskDetails :
          /\ tid \in DOMAIN fetchState
          /\ fetchState[tid] = "ok"
          /\ taskDetails[tid]["id"] = JStr(tid)
    /\ Enriching /\ StillInFlight # {} =>
          /\ data = up.json
          /\ responses = <<>>

\* A merged answer after one fetch succeeded and the other failed.
MergeAfterSettleWitness ==
    /\ EnrichDone
    /\ Cardinality(DOMAIN fetchState) = 2
    /\ Cardinality(DOMAIN taskDetails) = 1
    /\ data # up.json

(***************************************************************************)
(* C28  Selection and merge agree.  The items the merge modifies are the   *)
(* items selected for enrichment whose task was fetched successfully.      *)
(***************************************************************************)
SelectionMergeAgree ==
    EnrichDone =>
        \A i \in ItemIdx :
            OutItem(i) # InItem(i) <=>
                (NeedsEnrich(InItem(i)) /\ InItem(i).taskId \in DOMAIN taskDetails)

(***************************************************************************)
(* C30  One response.  An invocation whose outbound calls complete sends   *)
(* exactly one response: it has answered once when it ends, it never       *)
(* answers twice, and it ends unless a call stays unanswered.              *)
(***************************************************************************)
CallUnanswered == \E tid \in DOMAIN fetchState : fetchState[tid] = "hung"

ExactlyOneResponse ==
    /\ Len(responses) <= 1
    /\ pc = "done" <=> Len(responses) = 1
    /\ (pc # "done" /\ ~CallUnanswered) => ENABLED Next

\* Ended after a fan-out in which fetches failed.
ExactlyOneResponseWitness ==
    /\ EnrichDone
    /\ FetchedOk = {}
    /\ Len(responses) = 1

(***************************************************************************)
(* C25  Start-up.  When loadStoredAuth has ended and the user has started  *)
(* no operation, isLoading is false and either the profile of the stored   *)
(* token was returned and the user is set, or the stored token and the     *)
(* in-memory token are both cleared and the user is null.                  *)
(***************************************************************************)
LoadEnded == opPc["loadStoredAuth"] \in {"done", "failed"}

StartupRestores ==
    LoadEnded /\ started = 0 =>
        /\ ~isLoading
        /\ \/ (user = "U0" /\ storedToken = "T0" /\ authToken = "T0")
           \/ (user = NoUser /\ storedToken = NoToken /\ authToken = NoToken)

(***************************************************************************)
(* C26  Login, register, logout.  A login or register that succeeds sets   *)
(* the stored token, the in-memory token and the user from its response    *)
(* and clears the query cache; one that fails changes none of the four;    *)
(* a logout that completes clears all four.  The stored token is that of   *)
(* the operation when no other operation ran during it.                    *)
(***************************************************************************)
Completes(o) == opPc[o] # "done" /\ opPc'[o] = "done"
Fails(o) == opPc[o] # "failed" /\ opPc'[o] = "failed"

AuthenticatedHasToken ==
    (user # NoUser /\ ~InFlight("logout")) =>
        (authToken # NoToken /\ storedToken # NoToken)

====
